---- MODULE Spec2Model ----
(***************************************************************************)
(* A model of quicksilver's geom::Vector (src/src/geom/vector.rs): a pair  *)
(* of IEEE-754 binary32 numbers with arithmetic, geometric queries and an  *)
(* epsilon equality.                                                       *)
(*                                                                         *)
(* An f32 is modelled bit for bit as its three fields: the sign s, the     *)
(* biased exponent e (0..255) and the fraction m (0..2^23-1).  Arithmetic  *)
(* is IEEE round-to-nearest-even, with subnormals, infinities and NaN.     *)
(* Rust leaves the sign and payload of a NaN unspecified, so every NaN is  *)
(* the one value NaN below.                                                *)
(***************************************************************************)
EXTENDS Integers, Sequences, FiniteSets, TLC

VARIABLES
    self,   \* the Vector binding the operation is applied to (mutated by the compound assignments)
    a,      \* a second Vector binding (rhs / min_bound / other)
    b,      \* a third Vector binding (max_bound)
    s,      \* an f32 scalar binding
    k,      \* an i32 scalar binding
    op,     \* the operation evaluated last ("new" after construction)
    rv,     \* its result when it returns a Vector
    rf,     \* its result when it returns an f32
    rb,     \* its result when it returns a bool
    v0,     \* the value self was constructed with
    hist    \* the compound assignments applied to self since, as <<operator, right-hand side>>

vars == <<self, a, b, s, k, op, rv, rf, rb, v0, hist>>

(***************************************************************************)
(* f32: the representation                                                 *)
(***************************************************************************)
F32(sg, ex, fr) == [s |-> sg, e |-> ex, m |-> fr]

NaN == F32(0, 255, 4194304)
Infinity(sg) == F32(sg, 255, 0)
SignedZero(sg) == F32(sg, 0, 0)

IsNaN(f) == f.e = 255 /\ f.m # 0
IsInf(f) == f.e = 255 /\ f.m = 0
IsZero(f) == f.e = 0 /\ f.m = 0
IsFinite(f) == f.e < 255

\* A finite f32 is Sig(f) * 2^Exp(f), negated when f.s = 1.
Sig(f) == IF f.e = 0 THEN f.m ELSE 8388608 + f.m
Exp(f) == IF f.e = 0 THEN -149 ELSE f.e - 150

RECURSIVE BitLen(_)
BitLen(n) == IF n = 0 THEN 0 ELSE 1 + BitLen(n \div 2)

\* The significand shifted left to exactly 24 bits, and the exponent that goes with it.
NormSig(f) == Sig(f) * 2^(24 - BitLen(Sig(f)))
NormExp(f) == Exp(f) - (24 - BitLen(Sig(f)))

\* The f32 with significand q (at most 2^24) and unit 2^E1; q < 2^23 only when E1 = -149.
Pack(sg, q, E1) ==
    IF q = 16777216 THEN (IF E1 + 151 >= 255 THEN Infinity(sg) ELSE F32(sg, E1 + 151, 0))
    ELSE IF q >= 8388608 THEN (IF E1 + 150 >= 255 THEN Infinity(sg) ELSE F32(sg, E1 + 150, q - 8388608))
    ELSE F32(sg, 0, q)

\* Does rounding M * 2^E (M > 0, plus a nonzero tail below its last bit when sticky)
\* to an f32 discard anything?
Inexact(M, E, sticky) ==
    LET L == BitLen(M)
        E1 == IF E + L - 24 < -149 THEN -149 ELSE E + L - 24
        sh == E1 - E
    IN  sticky \/ (sh > 0 /\ (sh > L \/ M % (2^sh) # 0))

\* M * 2^E (0 < M < 2^30) rounded to the nearest f32, ties to even.
RoundPack(sg, M, E, sticky) ==
    LET L == BitLen(M)
        E1 == IF E + L - 24 < -149 THEN -149 ELSE E + L - 24
        sh == E1 - E
    IN  IF sh <= 0 THEN Pack(sg, M * 2^(-sh), E1)
        ELSE IF sh > L THEN SignedZero(sg)
        ELSE LET q == M \div (2^sh)
                 r == M % (2^sh)
                 half == 2^(sh - 1)
                 up == r > half \/ (r = half /\ (sticky \/ q % 2 = 1))
             IN  Pack(sg, IF up THEN q + 1 ELSE q, E1)

(***************************************************************************)
(* f32: the operations the source uses                                     *)
(***************************************************************************)
f32_neg(f) == IF IsNaN(f) THEN NaN ELSE F32(1 - f.s, f.e, f.m)

f32_abs(f) == IF IsNaN(f) THEN NaN ELSE F32(0, f.e, f.m)

\* The position of a non-NaN f32 on the number line (both zeros at 0).
Ord(f) == IF f.s = 1 THEN 0 - (f.e * 8388608 + f.m) ELSE f.e * 8388608 + f.m

f32_lt(f, g) == ~IsNaN(f) /\ ~IsNaN(g) /\ Ord(f) < Ord(g)

f32_le(f, g) == ~IsNaN(f) /\ ~IsNaN(g) /\ Ord(f) <= Ord(g)

\* The exact sum of two finite non-zero f32 of which f has the larger exponent,
\* as <<sign, M, E, sticky>> with five guard bits; M = 0 when they cancel.
AddParts(f, g) ==
    LET d == Exp(f) - Exp(g)
        A == Sig(f) * 32
        Bs == Sig(g) * 32
        Bq == IF d > 30 THEN 0 ELSE Bs \div (2^d)
        st == IF d > 30 THEN TRUE ELSE Bs % (2^d) # 0
        E == Exp(f) - 5
    IN  IF f.s = g.s THEN <<f.s, A + Bq, E, st>>
        ELSE IF A > Bq THEN <<f.s, IF st THEN A - Bq - 1 ELSE A - Bq, E, st>>
        ELSE IF A < Bq THEN <<g.s, Bq - A, E, st>>
        ELSE <<0, 0, E, st>>

AddOrdered(f, g) == IF Exp(f) >= Exp(g) THEN AddParts(f, g) ELSE AddParts(g, f)

f32_add(f, g) ==
    IF IsNaN(f) \/ IsNaN(g) THEN NaN
    ELSE IF IsInf(f) THEN (IF IsInf(g) /\ g.s # f.s THEN NaN ELSE f)
    ELSE IF IsInf(g) THEN g
    ELSE IF IsZero(f) THEN (IF IsZero(g) THEN SignedZero(IF f.s = 1 /\ g.s = 1 THEN 1 ELSE 0) ELSE g)
    ELSE IF IsZero(g) THEN f
    ELSE LET p == AddOrdered(f, g)
         IN  IF p[2] = 0 THEN SignedZero(0) ELSE RoundPack(p[1], p[2], p[3], p[4])

f32_sub(f, g) == f32_add(f, f32_neg(g))

\* Is f + g computed without rounding (finite operands, finite exact result)?
AddIsExact(f, g) ==
    /\ IsFinite(f) /\ IsFinite(g)
    /\ \/ IsZero(f) \/ IsZero(g)
       \/ LET p == AddOrdered(f, g)
          IN  p[2] = 0 \/ (~Inexact(p[2], p[3], p[4]) /\ IsFinite(RoundPack(p[1], p[2], p[3], p[4])))

\* The 48-bit product of two 24-bit significands as <<M, sticky>>: its top 29 bits
\* and whether the 19 below hold anything (computed in 12-bit limbs to stay in range).
MulParts(A, B) ==
    LET a1 == A \div 4096
        a0 == A % 4096
        b1 == B \div 4096
        b0 == B % 4096
        lo == a0 * b0
        mid == a1 * b0 + a0 * b1
        t == lo + (mid % 4096) * 4096
        L == t % 16777216
        H == a1 * b1 + mid \div 4096 + t \div 16777216
    IN  <<H * 32 + L \div 524288, L % 524288 # 0>>

f32_mul(f, g) ==
    LET sg == IF f.s = g.s THEN 0 ELSE 1
    IN  IF IsNaN(f) \/ IsNaN(g) THEN NaN
        ELSE IF IsInf(f) \/ IsInf(g) THEN (IF IsZero(f) \/ IsZero(g) THEN NaN ELSE Infinity(sg))
        ELSE IF IsZero(f) \/ IsZero(g) THEN SignedZero(sg)
        ELSE LET p == MulParts(NormSig(f), NormSig(g))
             IN  RoundPack(sg, p[1], NormExp(f) + NormExp(g) + 19, p[2])

\* Is f * g computed without rounding (finite operands, finite exact result)?
MulIsExact(f, g) ==
    /\ IsFinite(f) /\ IsFinite(g)
    /\ \/ IsZero(f) \/ IsZero(g)
       \/ LET p == MulParts(NormSig(f), NormSig(g))
              E == NormExp(f) + NormExp(g) + 19
          IN  ~Inexact(p[1], E, p[2]) /\ IsFinite(RoundPack(0, p[1], E, p[2]))

\* Long division: n more quotient bits of rem / D, as <<quotient, remainder>>.
RECURSIVE DivBits(_, _, _, _)
DivBits(rem, D, q, n) ==
    IF n = 0 THEN <<q, rem>>
    ELSE IF rem >= D THEN DivBits((rem - D) * 2, D, 2 * q + 1, n - 1)
    ELSE DivBits(rem * 2, D, 2 * q, n - 1)

f32_div(f, g) ==
    LET sg == IF f.s = g.s THEN 0 ELSE 1
    IN  IF IsNaN(f) \/ IsNaN(g) THEN NaN
        ELSE IF IsInf(f) THEN (IF IsInf(g) THEN NaN ELSE Infinity(sg))
        ELSE IF IsInf(g) THEN SignedZero(sg)
        ELSE IF IsZero(g) THEN (IF IsZero(f) THEN NaN ELSE Infinity(sg))
        ELSE IF IsZero(f) THEN SignedZero(sg)
        ELSE LET p == DivBits(NormSig(f), NormSig(g), 0, 28)
             IN  RoundPack(sg, p[1], NormExp(f) - NormExp(g) - 27, p[2] # 0)

f32_recip(f) == f32_div(F32(0, 127, 0), f)

\* Bit-by-bit square root: the radicand is R followed by zero pairs; i pairs of R and
\* n pairs in all are still to come; <<root, remainder>>.
RECURSIVE SqrtBits(_, _, _, _, _)
SqrtBits(R, i, n, q, r) ==
    IF n = 0 THEN <<q, r>>
    ELSE LET pair == IF i > 0 THEN (R \div (4^(i - 1))) % 4 ELSE 0
             r1 == 4 * r + pair
             c == 4 * q + 1
         IN  IF r1 >= c THEN SqrtBits(R, IF i > 0 THEN i - 1 ELSE 0, n - 1, 2 * q + 1, r1 - c)
             ELSE SqrtBits(R, IF i > 0 THEN i - 1 ELSE 0, n - 1, 2 * q, r1)

f32_sqrt(f) ==
    IF IsNaN(f) THEN NaN
    ELSE IF IsZero(f) THEN f
    ELSE IF f.s = 1 THEN NaN
    ELSE IF IsInf(f) THEN f
    ELSE LET odd == NormExp(f) % 2 # 0
             R == IF odd THEN NormSig(f) * 2 ELSE NormSig(f)
             E == IF odd THEN NormExp(f) - 1 ELSE NormExp(f)
             p == SqrtBits(R, 13, 27, 0, 0)
         IN  RoundPack(0, p[1], (E \div 2) - 14, p[2] # 0)

\* Is the square root of f (finite, positive) an f32, so that f32_sqrt rounds nothing?
SqrtIsExact(f) ==
    /\ IsFinite(f) /\ ~IsZero(f) /\ f.s = 0
    /\ LET odd == NormExp(f) % 2 # 0
           R == IF odd THEN NormSig(f) * 2 ELSE NormSig(f)
           E == IF odd THEN NormExp(f) - 1 ELSE NormExp(f)
           p == SqrtBits(R, 13, 27, 0, 0)
       IN  p[2] = 0 /\ ~Inexact(p[1], (E \div 2) - 14, FALSE)

\* f32::max and f32::min ignore a NaN operand.  When the operands compare equal but
\* differ (the two zeros) either may be returned, so the outcomes are a set.
f32_max(f, g) ==
    IF IsNaN(f) THEN {g}
    ELSE IF IsNaN(g) THEN {f}
    ELSE IF f32_lt(f, g) THEN {g}
    ELSE IF f32_lt(g, f) THEN {f}
    ELSE {f, g}

f32_min(f, g) ==
    IF IsNaN(f) THEN {g}
    ELSE IF IsNaN(g) THEN {f}
    ELSE IF f32_lt(f, g) THEN {f}
    ELSE IF f32_lt(g, f) THEN {g}
    ELSE {f, g}

\* `n as f32` for an i32 n: the nearest f32, ties to even.
i32_as_f32(n) ==
    IF n = 0 THEN SignedZero(0)
    ELSE IF n = (0 - 2147483647) - 1 THEN F32(1, 158, 0)
    ELSE LET sg == IF n < 0 THEN 1 ELSE 0
             mag == IF n < 0 THEN 0 - n ELSE n
         IN  IF mag >= 1073741824 THEN RoundPack(sg, mag \div 2, 1, mag % 2 = 1)
             ELSE RoundPack(sg, mag, 0, FALSE)


(***************************************************************************)
(* Vector                                                                  *)
(***************************************************************************)
FLOAT_LIMIT == F32(0, 107, 407485)    \* 0.000001f32, bits 0x358637BD

new(fx, fy) == [x |-> fx, y |-> fy]

zero == new(SignedZero(0), SignedZero(0))

Vector_x == new(F32(0, 127, 0), SignedZero(0))

Vector_y == new(SignedZero(0), F32(0, 127, 0))

one == new(F32(0, 127, 0), F32(0, 127, 0))

newi(i, j) == new(i32_as_f32(i), i32_as_f32(j))

\* len2 with the second square taken as y * x.
len2_MixedSquare(v) == f32_add(f32_mul(v.x, v.x), f32_mul(v.y, v.x))

len2(v) == f32_add(f32_mul(v.x, v.x), f32_mul(v.y, v.y))

len(v) == f32_sqrt(len2(v))

\* clamp_component with min applied first and max second.
clamp_component_MinFirst(c, min_c, max_c) == UNION {f32_max(min_c, t) : t \in f32_min(max_c, c)}

\* clamp_component with min and max exchanged.
clamp_component_Swapped(c, min_c, max_c) == UNION {f32_max(max_c, t) : t \in f32_min(min_c, c)}

\* max_bound.c.min(min_bound.c.max(self.c)) for one component c: every outcome.
clamp_component(c, min_c, max_c) == UNION {f32_min(max_c, t) : t \in f32_max(min_c, c)}

\* The Vectors clamp may return (one, unless a min or max meets the two zeros).
clamp(v, min_bound, max_bound) ==
    {new(cx, cy) : cx \in clamp_component(v.x, min_bound.x, max_bound.x),
                   cy \in clamp_component(v.y, min_bound.y, max_bound.y)}

cross(v, other) == f32_sub(f32_mul(v.x, other.y), f32_mul(v.y, other.x))

dot(v, other) == f32_add(f32_mul(v.x, other.x), f32_mul(v.y, other.y))

x_comp(v) == new(v.x, SignedZero(0))

y_comp(v) == new(SignedZero(0), v.y)

recip(v) == new(f32_recip(v.x), f32_recip(v.y))

times(v, other) == new(f32_mul(v.x, other.x), f32_mul(v.y, other.y))

neg(v) == new(f32_neg(v.x), f32_neg(v.y))

\* add taking both components of the sum from rhs.x.
add_RhsXTwice(v, rhs) == new(f32_add(v.x, rhs.x), f32_add(v.y, rhs.x))

add(v, rhs) == new(f32_add(v.x, rhs.x), f32_add(v.y, rhs.y))

add_assign(v, rhs) == add(v, rhs)

sub(v, rhs) == add(v, neg(rhs))

\* sub_assign subtracting the binding from the right-hand side.
sub_assign_Reversed(v, rhs) == sub(rhs, v)

sub_assign(v, rhs) == sub(v, rhs)

div_f32(v, rhs) == new(f32_div(v.x, rhs), f32_div(v.y, rhs))

div_assign_f32(v, rhs) == div_f32(v, rhs)

\* mul_f32 scaling x into both components.
mul_f32_XTwice(v, rhs) == new(f32_mul(v.x, rhs), f32_mul(v.x, rhs))

mul_f32(v, rhs) == new(f32_mul(v.x, rhs), f32_mul(v.y, rhs))

mul_assign_f32(v, rhs) == mul_f32(v, rhs)

\* div_i32 refusing a zero divisor (the vector is returned as it is).
div_i32_Guarded(v, rhs) ==
    IF rhs = 0 THEN v ELSE new(f32_div(v.x, i32_as_f32(rhs)), f32_div(v.y, i32_as_f32(rhs)))

div_i32(v, rhs) == new(f32_div(v.x, i32_as_f32(rhs)), f32_div(v.y, i32_as_f32(rhs)))

div_assign_i32(v, rhs) == div_i32(v, rhs)

mul_i32(v, rhs) == new(f32_mul(v.x, i32_as_f32(rhs)), f32_mul(v.y, i32_as_f32(rhs)))

mul_assign_i32(v, rhs) == mul_i32(v, rhs)

normalize(v) == div_f32(v, len(v))

\* eq with <= in place of <.
eq_NotStrict(v, other) ==
    /\ f32_le(f32_abs(f32_sub(v.x, other.x)), FLOAT_LIMIT)
    /\ f32_le(f32_abs(f32_sub(v.y, other.y)), FLOAT_LIMIT)

eq(v, other) ==
    /\ f32_lt(f32_abs(f32_sub(v.x, other.x)), FLOAT_LIMIT)
    /\ f32_lt(f32_abs(f32_sub(v.y, other.y)), FLOAT_LIMIT)

(***************************************************************************)
(* Inputs.  MaxInt bounds the integers the bindings are built from;        *)
(* MaxSteps bounds the compound assignments applied to one binding.        *)
(***************************************************************************)
MaxInt == 2
MaxSteps == 2

Ints == (0 - MaxInt)..MaxInt
IntFloats == {i32_as_f32(i) : i \in Ints}

\* An f32 == : numeric equality (the two zeros are equal, NaN equals nothing).
f32_eq(f, g) == ~IsNaN(f) /\ ~IsNaN(g) /\ Ord(f) = Ord(g)

Components == {"x", "y"}

\* An operation returns one value: it fills the result of its type and clears the others.
ReturnVector(r) == rv' = r /\ rf' = SignedZero(0) /\ rb' = FALSE
ReturnFloat(r) == rv' = zero /\ rf' = r /\ rb' = FALSE
ReturnBool(r) == rv' = zero /\ rf' = SignedZero(0) /\ rb' = r

(***************************************************************************)
(* clamp: self.clamp(a, b) for bindings drawn from ClampVecs               *)
(***************************************************************************)
ClampVecs ==
    {new(p, q) : p \in IntFloats, q \in {NaN, SignedZero(1), SignedZero(0)}}
        \cup {newi(-11, 3), newi(-10, -2), newi(5, 6)}

InitClamp ==
    /\ self \in ClampVecs /\ a \in ClampVecs /\ b \in ClampVecs
    /\ s = SignedZero(0) /\ k = 0
    /\ op = "new" /\ rv = zero /\ rf = SignedZero(0) /\ rb = FALSE
    /\ v0 = self /\ hist = <<>>

Clamp ==
    /\ \E r \in clamp(self, a, b) : ReturnVector(r)
    /\ op' = "clamp"
    /\ UNCHANGED <<self, a, b, s, k, v0, hist>>

NextClamp == Clamp

SpecClamp == InitClamp /\ [][NextClamp]_vars

\* r is a maximum of f and g as f32::max takes it (a NaN operand is ignored).
IsMaxOf(r, f, g) ==
    IF IsNaN(f) THEN r = g
    ELSE IF IsNaN(g) THEN r = f
    ELSE r \in {f, g} /\ f32_le(f, r) /\ f32_le(g, r)

\* r is a minimum of f and g as f32::min takes it (a NaN operand is ignored).
IsMinOf(r, f, g) ==
    IF IsNaN(f) THEN r = g
    ELSE IF IsNaN(g) THEN r = f
    ELSE r \in {f, g} /\ f32_le(r, f) /\ f32_le(r, g)

\* C1 as stated: each component of the clamped vector is
\* max(min_bound, min(max_bound, value)), min applied first and max second, also when
\* min_bound > max_bound.
C1_MinThenMax ==
    op = "clamp" =>
        \A c \in Components :
            \E t \in {b[c], self[c]} : IsMinOf(t, b[c], self[c]) /\ IsMaxOf(rv[c], a[c], t)

\* C1 amended: each component of the clamped vector is
\* min(max_bound, max(min_bound, value)), max applied first and min second (a NaN operand
\* of min or max being ignored); when min_bound > max_bound the result is max_bound.
C1_MaxThenMin ==
    op = "clamp" =>
        \A c \in Components :
            /\ \E t \in {a[c], self[c]} : IsMaxOf(t, a[c], self[c]) /\ IsMinOf(rv[c], b[c], t)
            /\ f32_lt(b[c], a[c]) => f32_eq(rv[c], b[c])

\* A clamp between crossed bounds (min_bound.x > max_bound.x) has returned max_bound.x.
C1_Witness ==
    /\ op = "clamp"
    /\ f32_lt(b.x, a.x) /\ f32_lt(b.x, self.x) /\ f32_lt(self.x, a.x)
    /\ rv.x = b.x

\* C2: with min_bound <= max_bound on a component, the clamped component lies in
\* [min_bound, max_bound], and a value already inside the interval is returned unchanged;
\* (-11, 3) clamped to [(-10, -2), (5, 6)] is (-10, 3).
C2_ClampWithinBounds ==
    op = "clamp" =>
        /\ \A c \in Components :
              f32_le(a[c], b[c]) =>
                  /\ f32_le(a[c], rv[c]) /\ f32_le(rv[c], b[c])
                  /\ (f32_le(a[c], self[c]) /\ f32_le(self[c], b[c])) => f32_eq(rv[c], self[c])
        /\ (self = newi(-11, 3) /\ a = newi(-10, -2) /\ b = newi(5, 6)) => rv = newi(-10, 3)

\* The clamp of the source's test has run: one component pulled up to the bound, one kept.
C2_Witness ==
    /\ op = "clamp"
    /\ self = newi(-11, 3) /\ a = newi(-10, -2) /\ b = newi(5, 6)
    /\ rv = newi(-10, 3)

(***************************************************************************)
(* ==: self == a for bindings drawn from EqVecs                            *)
(***************************************************************************)
F32_MAX == F32(0, 254, 8388607)

\* 0, 6e-7, the f32 just below FLOAT_LIMIT, FLOAT_LIMIT and 1.2e-6.
EqFloats ==
    {SignedZero(0), F32(0, 106, 2166704), F32(0, 107, 407484), FLOAT_LIMIT, F32(0, 107, 2166704)}

EqVecs ==
    {new(p, q) : p \in EqFloats, q \in EqFloats}
        \cup {newi(i, 5) : i \in Ints \cup {5}}
        \cup {recip(zero), normalize(zero), mul_i32(new(F32_MAX, F32(0, 127, 0)), 2)}

InitEq ==
    /\ self \in EqVecs /\ a \in EqVecs
    /\ b = zero /\ s = SignedZero(0) /\ k = 0
    /\ op = "new" /\ rv = zero /\ rf = SignedZero(0) /\ rb = FALSE
    /\ v0 = self /\ hist = <<>>

Eq ==
    /\ ReturnBool(eq(self, a))
    /\ op' = "eq"
    /\ UNCHANGED <<self, a, b, s, k, v0, hist>>

NextEq == Eq

SpecEq == InitEq /\ [][NextEq]_vars

\* A component below 2^-19 in whole units of 2^-44 (only such components are measured).
Small(f) == IsZero(f) \/ f.e \in {106, 107}
Units(f) == IF IsZero(f) THEN 0 ELSE IF f.e = 106 THEN Sig(f) ELSE 2 * Sig(f)
Distance(f, g) == IF Units(f) >= Units(g) THEN Units(f) - Units(g) ELSE Units(g) - Units(f)

\* C3: a == b exactly when on each component separately the absolute difference is
\* strictly below the tolerance 1e-6 (the f32 FLOAT_LIMIT): a difference of exactly the
\* tolerance on either component makes them unequal, whatever the other component is.
C3_EqPerComponentStrict ==
    op = "eq" =>
        /\ rb = \A c \in Components : f32_lt(f32_abs(f32_sub(self[c], a[c])), FLOAT_LIMIT)
        /\ (\E c \in Components : f32_abs(f32_sub(self[c], a[c])) = FLOAT_LIMIT) => ~rb
        /\ (\A c \in Components : Small(self[c]) /\ Small(a[c]) /\ self[c].s = 0 /\ a[c].s = 0) =>
              rb = \A c \in Components : Distance(self[c], a[c]) < Units(FLOAT_LIMIT)
        /\ (self = newi(5, 5) /\ a = newi(5, 5)) => rb
        /\ (self = newi(0, 5) /\ a = newi(5, 5)) => ~rb

\* Two vectors exactly the tolerance apart on x and identical on y have compared unequal.
C3_Witness ==
    /\ op = "eq"
    /\ self = new(FLOAT_LIMIT, SignedZero(0)) /\ a = zero
    /\ rb = FALSE

\* Three vectors that are pairwise close in a chain but whose ends are not.
NotTransitive ==
    \E u \in EqVecs, v \in EqVecs, w \in EqVecs : eq(u, v) /\ eq(v, w) /\ ~eq(u, w)

\* C4 as stated: == is reflexive on every vector the operations can produce and
\* symmetric, and it is not transitive.
C4_ReflexiveSymmetric ==
    op = "eq" =>
        /\ self = a => rb
        /\ rb = eq(a, self)
        /\ NotTransitive

(***************************************************************************)
(* Vector with Vector: self + a, self - a, -self, self.dot(a),             *)
(* self.cross(a) for bindings drawn from ArithVecs: finite components     *)
(* whose sums stay finite, as the data model expects of normal use         *)
(***************************************************************************)
\* 0.1f32
F32_TENTH == F32(0, 123, 5033165)

ArithVecs ==
    {newi(i, j) : i \in Ints, j \in {0 - MaxInt, MaxInt}}
        \cup {newi(5, 10), newi(1, -2), newi(1, 0), newi(16777216, 0), newi(6, 5), newi(2, -8),
              new(F32_TENTH, i32_as_f32(100)), new(SignedZero(1), F32(0, 0, 1))}

InitVec ==
    /\ self \in ArithVecs /\ a \in ArithVecs
    /\ b = zero /\ s = SignedZero(0) /\ k = 0
    /\ op = "new" /\ rv = zero /\ rf = SignedZero(0) /\ rb = FALSE
    /\ v0 = self /\ hist = <<>>

Add ==
    /\ ReturnVector(add(self, a))
    /\ op' = "add"
    /\ UNCHANGED <<self, a, b, s, k, v0, hist>>

Sub ==
    /\ ReturnVector(sub(self, a))
    /\ op' = "sub"
    /\ UNCHANGED <<self, a, b, s, k, v0, hist>>

Neg ==
    /\ ReturnVector(neg(self))
    /\ op' = "neg"
    /\ UNCHANGED <<self, a, b, s, k, v0, hist>>

Dot ==
    /\ ReturnFloat(dot(self, a))
    /\ op' = "dot"
    /\ UNCHANGED <<self, a, b, s, k, v0, hist>>

Cross ==
    /\ ReturnFloat(cross(self, a))
    /\ op' = "cross"
    /\ UNCHANGED <<self, a, b, s, k, v0, hist>>

NextVec == Add \/ Sub \/ Neg \/ Dot \/ Cross

SpecVec == InitVec /\ [][NextVec]_vars

\* C5 as stated: a + b == b + a and (a + b) - b == a for all vectors, a - b being
\* a + (-b) = (a.x - b.x, a.y - b.y); (5,10) + (1,-2) = (6,8), (5,10) - (1,-2) = (4,12).
C5_CommutesAndInverts ==
    /\ op = "add" =>
          /\ eq(rv, add(a, self))
          /\ eq(sub(rv, a), self)
          /\ (self = newi(5, 10) /\ a = newi(1, -2)) => rv = newi(6, 8)
    /\ op = "sub" =>
          /\ rv = new(f32_sub(self.x, a.x), f32_sub(self.y, a.y))
          /\ (self = newi(5, 10) /\ a = newi(1, -2)) => rv = newi(4, 12)

\* C5 amended: a + b and b + a have the same components (so they are == whenever the sum
\* is == to itself, that is finite), a - b is (a.x - b.x, a.y - b.y), and (a + b) - b == a
\* whenever both component sums of a + b are computed without rounding.
C5_CommutesInvertsWhenExact ==
    /\ op = "add" =>
          /\ rv = add(a, self)
          /\ eq(rv, rv) => eq(rv, add(a, self))
          /\ (\A c \in Components : AddIsExact(self[c], a[c])) => eq(sub(rv, a), self)
          /\ (self = newi(5, 10) /\ a = newi(1, -2)) => rv = newi(6, 8)
    /\ op = "sub" =>
          /\ rv = new(f32_sub(self.x, a.x), f32_sub(self.y, a.y))
          /\ (self = newi(5, 10) /\ a = newi(1, -2)) => rv = newi(4, 12)

\* An exact sum of two different vectors has been formed, and taking b away restores a.
C5_Witness ==
    /\ op = "add"
    /\ self = newi(5, 10) /\ a = newi(1, -2)
    /\ rv = newi(6, 8) /\ sub(rv, a) = self

(***************************************************************************)
(* Vector with scalar, and the queries of one Vector: self * s, self / s,  *)
(* self * k, self / k, normalize, recip, len2, len, x_comp, y_comp for     *)
(* finite bindings drawn from ScaleVecs, ScaleFloats and ScaleInts         *)
(***************************************************************************)
\* 1e-30f32
F32_TINY == F32(0, 27, 2245216)

ScaleVecs ==
    {newi(i, j) : i \in Ints, j \in {0 - MaxInt, MaxInt}}
        \cup {zero, one, Vector_x, Vector_y, newi(3, -2), newi(3, 3), newi(3, 4),
              newi(16777215, 0), mul_i32(Vector_x, 5), new(F32_TINY, SignedZero(0)),
              new(SignedZero(1), F32(0, 128, 0)), new(F32_TENTH, i32_as_f32(100))}

\* the integers as f32, 0.5, -0.0 and 0.1
ScaleFloats == IntFloats \cup {F32(0, 126, 0), SignedZero(1), F32_TENTH}

ScaleInts == Ints \cup {5, 16777217}

InitScale ==
    /\ self \in ScaleVecs /\ s \in ScaleFloats /\ k \in ScaleInts
    /\ a = zero /\ b = zero
    /\ op = "new" /\ rv = zero /\ rf = SignedZero(0) /\ rb = FALSE
    /\ v0 = self /\ hist = <<>>

MulF32 ==
    /\ ReturnVector(mul_f32(self, s))
    /\ op' = "mul_f32"
    /\ UNCHANGED <<self, a, b, s, k, v0, hist>>

DivF32 ==
    /\ ReturnVector(div_f32(self, s))
    /\ op' = "div_f32"
    /\ UNCHANGED <<self, a, b, s, k, v0, hist>>

MulI32 ==
    /\ ReturnVector(mul_i32(self, k))
    /\ op' = "mul_i32"
    /\ UNCHANGED <<self, a, b, s, k, v0, hist>>

DivI32 ==
    /\ ReturnVector(div_i32(self, k))
    /\ op' = "div_i32"
    /\ UNCHANGED <<self, a, b, s, k, v0, hist>>

Normalize ==
    /\ ReturnVector(normalize(self))
    /\ op' = "normalize"
    /\ UNCHANGED <<self, a, b, s, k, v0, hist>>

Recip ==
    /\ ReturnVector(recip(self))
    /\ op' = "recip"
    /\ UNCHANGED <<self, a, b, s, k, v0, hist>>

XComp ==
    /\ ReturnVector(x_comp(self))
    /\ op' = "x_comp"
    /\ UNCHANGED <<self, a, b, s, k, v0, hist>>

YComp ==
    /\ ReturnVector(y_comp(self))
    /\ op' = "y_comp"
    /\ UNCHANGED <<self, a, b, s, k, v0, hist>>

Len2 ==
    /\ ReturnFloat(len2(self))
    /\ op' = "len2"
    /\ UNCHANGED <<self, a, b, s, k, v0, hist>>

Length ==
    /\ ReturnFloat(len(self))
    /\ op' = "len"
    /\ UNCHANGED <<self, a, b, s, k, v0, hist>>

NextScale ==
    \/ MulF32 \/ DivF32 \/ MulI32 \/ DivI32
    \/ Normalize \/ Recip \/ XComp \/ YComp
    \/ Len2 \/ Length

SpecScale == InitScale /\ [][NextScale]_vars

\* C6 as stated: (v * s) / s == v for every vector v and every non-zero scalar s, integer
\* or float, an integer scalar acting as the f32 it converts to.
C6_ScaleRoundTrip ==
    /\ op = "mul_f32" =>
          /\ ~IsZero(s) => eq(div_f32(rv, s), self)
    /\ op = "mul_i32" =>
          /\ k # 0 => eq(div_i32(rv, k), self)
          /\ rv = mul_f32(self, i32_as_f32(k))
          /\ (self = newi(1, 1) /\ k = 2) => eq(rv, newi(2, 2))
    /\ op = "div_i32" =>
          /\ rv = div_f32(self, i32_as_f32(k))
          /\ (self = newi(1, 1) /\ k = 2) => eq(rv, new(F32(0, 126, 0), F32(0, 126, 0)))

\* C6 amended: (v * s) / s == v for a non-zero scalar s whenever both component products
\* of v * s are computed without rounding; an integer scalar acts as the f32 it converts to.
C6_ScaleRoundTripWhenExact ==
    /\ op = "mul_f32" =>
          /\ (~IsZero(s) /\ \A c \in Components : MulIsExact(self[c], s)) =>
                eq(div_f32(rv, s), self)
    /\ op = "mul_i32" =>
          /\ (k # 0 /\ \A c \in Components : MulIsExact(self[c], i32_as_f32(k))) =>
                eq(div_i32(rv, k), self)
          /\ rv = mul_f32(self, i32_as_f32(k))
          /\ (self = newi(1, 1) /\ k = 2) => eq(rv, newi(2, 2))
    /\ op = "div_i32" =>
          /\ rv = div_f32(self, i32_as_f32(k))
          /\ (self = newi(1, 1) /\ k = 2) => eq(rv, new(F32(0, 126, 0), F32(0, 126, 0)))

\* A vector has been scaled exactly by a scalar other than 0 and 1, and dividing restores it.
C6_Witness ==
    /\ op = "mul_i32"
    /\ self = newi(3, -2) /\ k = 2
    /\ rv = newi(6, -4) /\ eq(div_i32(rv, k), self)

InfOrNaN(f) == IsInf(f) \/ IsNaN(f)

\* f is an f32: a value and not a failure.
IsF32(f) == f \in [s : {0, 1}, e : 0..255, m : 0..8388607]

\* C7: no operation fails, each returns f32 values; dividing by a zero scalar (integer or
\* float), recip of a vector with a zero component and normalize of the zero vector return
\* a vector whose affected components are infinite or NaN.
C7_ZeroDivisorsGiveInfOrNaN ==
    /\ IsF32(rv.x) /\ IsF32(rv.y) /\ IsF32(rf)
    /\ (op = "div_i32" /\ k = 0) => \A c \in Components : InfOrNaN(rv[c])
    /\ (op = "div_f32" /\ IsZero(s)) => \A c \in Components : InfOrNaN(rv[c])
    /\ op = "recip" => \A c \in Components : IsZero(self[c]) => IsInf(rv[c])
    /\ (op = "normalize" /\ IsZero(self.x) /\ IsZero(self.y)) =>
          \A c \in Components : IsNaN(rv[c])

\* (1, 0) has been divided by the integer 0, giving (inf, NaN).
C7_Witness ==
    /\ op = "div_i32" /\ k = 0
    /\ self = Vector_x
    /\ rv = new(Infinity(0), NaN)

NoNaN(v) == ~IsNaN(v.x) /\ ~IsNaN(v.y)
IsZeroVector(v) == IsZero(v.x) /\ IsZero(v.y)
NonNegative(f) == f32_le(SignedZero(0), f)
WithinLimit(f, g) == f32_lt(f32_abs(f32_sub(f, g)), FLOAT_LIMIT)

\* C9 as stated: len2 is x*x + y*y and equals len squared within the tolerance, both are
\* non-negative, and len is zero only for the zero vector; x() * 5 has len2 25 and len 5.
C9_LengthLaws ==
    /\ op = "len2" =>
          /\ rf = f32_add(f32_mul(self.x, self.x), f32_mul(self.y, self.y))
          /\ WithinLimit(f32_mul(len(self), len(self)), rf)
          /\ NonNegative(rf)
          /\ self = mul_i32(Vector_x, 5) => WithinLimit(rf, i32_as_f32(25))
    /\ op = "len" =>
          /\ NonNegative(rf)
          /\ IsZero(rf) => IsZeroVector(self)
          /\ self = mul_i32(Vector_x, 5) => WithinLimit(rf, i32_as_f32(5))

\* C9 amended: len2 is the f32 x*x + y*y and len its square root; without a NaN component
\* both are non-negative; len squared equals len2 within the tolerance whenever the square
\* root is exact; len is zero exactly when len2 is, which the zero vector makes it.
C9_LengthLawsWhenExact ==
    /\ op = "len2" =>
          /\ rf = f32_add(f32_mul(self.x, self.x), f32_mul(self.y, self.y))
          /\ SqrtIsExact(rf) => WithinLimit(f32_mul(len(self), len(self)), rf)
          /\ NoNaN(self) => NonNegative(rf)
          /\ self = mul_i32(Vector_x, 5) => WithinLimit(rf, i32_as_f32(25))
    /\ op = "len" =>
          /\ NoNaN(self) => NonNegative(rf)
          /\ IsZero(rf) <=> IsZero(len2(self))
          /\ IsZeroVector(self) => IsZero(rf)
          /\ SqrtIsExact(len2(self)) => WithinLimit(f32_mul(rf, rf), len2(self))
          /\ self = mul_i32(Vector_x, 5) => WithinLimit(rf, i32_as_f32(5))

\* The length of (3, 4), whose square root is exact, has been taken: 5.
C9_Witness ==
    /\ op = "len"
    /\ self = newi(3, 4)
    /\ rf = i32_as_f32(5) /\ len2(self) = i32_as_f32(25)

(***************************************************************************)
(* times: self.times(a), a being Vector::one() scaled by s or by k         *)
(***************************************************************************)
TimesVecs ==
    {newi(i, MaxInt) : i \in Ints}
        \cup {zero, newi(3, -2), new(F32_MAX, F32(0, 127, 0)), new(F32_TENTH, F32_TINY)}

InitTimes ==
    /\ self \in TimesVecs /\ s \in ScaleFloats /\ k \in ScaleInts
    /\ a \in {mul_f32(one, s), mul_i32(one, k)}
    /\ b = zero
    /\ op = "new" /\ rv = zero /\ rf = SignedZero(0) /\ rb = FALSE
    /\ v0 = self /\ hist = <<>>

Times ==
    /\ ReturnVector(times(self, a))
    /\ op' = "times"
    /\ UNCHANGED <<self, a, b, s, k, v0, hist>>

NextTimes == Times \/ MulF32 \/ MulI32

SpecTimes == InitTimes /\ [][NextTimes]_vars

\* C10: v.times(Vector::one() * k) == v * k for every vector v and scalar k, times being
\* the component-wise product (x * other.x, y * other.y).
C10_TimesMatchesScale ==
    op = "times" =>
        /\ rv = new(f32_mul(self.x, a.x), f32_mul(self.y, a.y))
        /\ a = mul_f32(one, s) => eq(rv, mul_f32(self, s))
        /\ a = mul_i32(one, k) => eq(rv, mul_i32(self, k))

(***************************************************************************)
(* Compound assignment: self += a, self -= a, self *= s, self /= s,        *)
(* self *= k, self /= k, at most MaxSteps of them on one binding           *)
(***************************************************************************)
InitAssign ==
    /\ self \in {newi(5, 10), one}
    /\ a \in {newi(1, -2), new(F32(0, 126, 0), i32_as_f32(3))}
    /\ b = newi(-1, 4)
    /\ s \in {F32(0, 126, 0), i32_as_f32(3), SignedZero(0)}
    /\ k \in {0, 2, -3}
    /\ op = "new" /\ rv = zero /\ rf = SignedZero(0) /\ rb = FALSE
    /\ v0 = self /\ hist = <<>>

AddAssign ==
    /\ Len(hist) < MaxSteps
    /\ self' = add_assign(self, a)
    /\ hist' = Append(hist, <<"add_assign", a>>)
    /\ op' = "add_assign"
    /\ UNCHANGED <<a, b, s, k, rv, rf, rb, v0>>

SubAssign ==
    /\ Len(hist) < MaxSteps
    /\ self' = sub_assign(self, a)
    /\ hist' = Append(hist, <<"sub_assign", a>>)
    /\ op' = "sub_assign"
    /\ UNCHANGED <<a, b, s, k, rv, rf, rb, v0>>

DivAssignF32 ==
    /\ Len(hist) < MaxSteps
    /\ self' = div_assign_f32(self, s)
    /\ hist' = Append(hist, <<"div_assign_f32", s>>)
    /\ op' = "div_assign_f32"
    /\ UNCHANGED <<a, b, s, k, rv, rf, rb, v0>>

MulAssignF32 ==
    /\ Len(hist) < MaxSteps
    /\ self' = mul_assign_f32(self, s)
    /\ hist' = Append(hist, <<"mul_assign_f32", s>>)
    /\ op' = "mul_assign_f32"
    /\ UNCHANGED <<a, b, s, k, rv, rf, rb, v0>>

DivAssignI32 ==
    /\ Len(hist) < MaxSteps
    /\ self' = div_assign_i32(self, k)
    /\ hist' = Append(hist, <<"div_assign_i32", k>>)
    /\ op' = "div_assign_i32"
    /\ UNCHANGED <<a, b, s, k, rv, rf, rb, v0>>

MulAssignI32 ==
    /\ Len(hist) < MaxSteps
    /\ self' = mul_assign_i32(self, k)
    /\ hist' = Append(hist, <<"mul_assign_i32", k>>)
    /\ op' = "mul_assign_i32"
    /\ UNCHANGED <<a, b, s, k, rv, rf, rb, v0>>

NextAssign ==
    \/ AddAssign \/ SubAssign
    \/ DivAssignF32 \/ MulAssignF32
    \/ DivAssignI32 \/ MulAssignI32

SpecAssign == InitAssign /\ [][NextAssign]_vars

\* The non-assigning operator a compound assignment stands for, applied to v.
Operator(v, e) ==
    CASE e[1] = "add_assign" -> add(v, e[2])
      [] e[1] = "sub_assign" -> sub(v, e[2])
      [] e[1] = "div_assign_f32" -> div_f32(v, e[2])
      [] e[1] = "mul_assign_f32" -> mul_f32(v, e[2])
      [] e[1] = "div_assign_i32" -> div_i32(v, e[2])
      [] e[1] = "mul_assign_i32" -> mul_i32(v, e[2])

RECURSIVE Replay(_, _)
Replay(v, h) == IF h = <<>> THEN v ELSE Replay(Operator(v, Head(h)), Tail(h))

\* C8: after any sequence of compound assignments the binding holds exactly what the
\* non-assigning operators give when applied in the same order to the initial value, and
\* each step leaves the right-hand operand and every other value as it was.
C8_AssignMatchesOperators ==
    /\ [](self = Replay(v0, hist))
    /\ [][a' = a /\ b' = b /\ s' = s /\ k' = k /\ v0' = v0 /\ rv' = rv]_vars

\* Two compound assignments of different kinds have been applied to (5, 10):
\* -= (1, -2) and then *= 2, leaving (8, 24).
C8_Witness ==
    /\ hist = <<(<<"sub_assign", newi(1, -2)>>), (<<"mul_assign_i32", 2>>)>>
    /\ v0 = newi(5, 10)
    /\ self = newi(8, 24)
====
